---- MODULE Spec2Model ----
(***************************************************************************)
(* Reactions (likes), denormalized post counters and soft deletion of the  *)
(* blog platform: PostsRepository, CommentRepository and CommentService.   *)
(* The relational store is the only shared state; every handler is cut at  *)
(* its awaited storage calls, one action per storage call.                 *)
(***************************************************************************)
EXTENDS Integers, Sequences, FiniteSets, TLC

\* ---------------------------------------------------------------- bounds
MaxTime == 1
MaxCount == 2
MaxRequests == 3
MaxPageSize == 2

Users == {"u1", "u2"}
Blogs == {"b1", "b2"}
Procs == {"r1", "r2"}
PostIds == {"e1"}
CommentIds == {"e2"}

\* ------------------------------------------------------- status strings
\* A string is the sequence of its characters, so that letter case is data.
LowerLetters == <<"l", "i", "k", "e", "d", "s", "n", "o", "a", "c", "f">>
UpperLetters == <<"L", "I", "K", "E", "D", "S", "N", "O", "A", "C", "F">>

toUpperCase(ch) ==
  IF \E i \in 1..Len(LowerLetters) : LowerLetters[i] = ch
  THEN UpperLetters[CHOOSE i \in 1..Len(LowerLetters) : LowerLetters[i] = ch]
  ELSE ch

toLowerCase(ch) ==
  IF \E i \in 1..Len(UpperLetters) : UpperLetters[i] = ch
  THEN LowerLetters[CHOOSE i \in 1..Len(UpperLetters) : UpperLetters[i] = ch]
  ELSE ch

Like == <<"L", "i", "k", "e">>
Dislike == <<"D", "i", "s", "l", "i", "k", "e">>
None == <<"N", "o", "n", "e">>
LikeStatus == {Like, Dislike, None}

\* The spellings a caller may send: the three canonical ones and spellings
\* that differ from them in letter case only.
StatusInputs ==
  LikeStatus \cup { <<"l", "i", "k", "e">>,
                    <<"D", "I", "S", "L", "I", "K", "E">>,
                    <<"n", "o", "n", "e">> }

\* The canonical spelling of s, letter case ignored.
Canonical(s) ==
  CHOOSE c \in LikeStatus :
    /\ Len(c) = Len(s)
    /\ \A i \in 1..Len(s) : toLowerCase(c[i]) = toLowerCase(s[i])

\* PostsRepository.normalizeLikeStatus: exact comparison, anything else None.
normalizeLikeStatus(status) ==
  IF status = Like THEN Like
  ELSE IF status = Dislike THEN Dislike
  ELSE None

\* updateLikeForComment: charAt(0).toUpperCase() + slice(1).toLowerCase().
capitalize_Verbatim(status) == status

capitalize(status) ==
  IF status = <<>> THEN <<>>
  ELSE <<toUpperCase(Head(status))>>
       \o [i \in 1..(Len(status) - 1) |-> toLowerCase(status[i + 1])]

\* ------------------------------------------------------------- the store
\* likes, posts and comments are the three tables; now is the store's clock;
\* call holds the requests in flight and arrived counts the requests accepted
\* where their number is bounded.
VARIABLES likes, posts, comments, now, call, arrived

vars == <<likes, posts, comments, now, call, arrived>>

\* Primary keys are uuids: opaque, never read by a handler, compared only for
\* equality. The table in a state names its n rows 1..n in a fixed order of
\* their columns (a renaming of the keys); within one run of a handler
\* (RunToEnd) every INSERT draws a key no row of that run has had.
TypeRank == [Post |-> 1, Comment |-> 2]
UserRank == [u1 |-> 1, u2 |-> 2]
EntityRank == [e1 |-> 1, e2 |-> 2, e3 |-> 3, e4 |-> 4]

RowOrder(r) ==
  ((((TypeRank[r.entity_type] * 8 + EntityRank[r.entity_id]) * 4
     + UserRank[r.user_id]) * 4
    + (IF r.status = Like THEN 1 ELSE 2)) * 16 + r.created_at) * 64 + r.id

Renamed(rows) ==
  LET ranked == { <<RowOrder(r), r>> : r \in rows }
  IN { [x[2] EXCEPT !.id = 1 + Cardinality({ y \in ranked : y[1] < x[1] })]
       : x \in ranked }

\* The store as one value, for the operators that model queries.
DB == [likes |-> likes, posts |-> posts, comments |-> comments,
       nextId |-> Cardinality(likes) + 1, now |-> now]

Commit(d) ==
  /\ likes' = IF d.likes = likes THEN likes ELSE Renamed(d.likes)
  /\ posts' = d.posts
  /\ comments' = d.comments
  /\ now' = d.now

LoginOf(u) == <<"login", u>>

\* The likes rows of one (user, entity, entity type).
RowsOf(d, userId, entityId, entityType) ==
  { r \in d.likes : /\ r.user_id = userId
                    /\ r.entity_id = entityId
                    /\ r.entity_type = entityType }

Undefined == "undefined"

\* SELECT status FROM likes WHERE ...; [0]?.status: with several matching rows
\* the store may return any of them first.
SelectStatus(d, userId, entityId, entityType) ==
  IF RowsOf(d, userId, entityId, entityType) = {}
  THEN {Undefined}
  ELSE { r.status : r \in RowsOf(d, userId, entityId, entityType) }

\* DeleteLikes without the entity_type filter.
DeleteLikes_AnyType(d, userId, entityId, entityType) ==
  [d EXCEPT !.likes = { r \in @ : ~ (r.user_id = userId
                                       /\ r.entity_id = entityId) }]

\* DELETE FROM likes WHERE user_id, entity_id, entity_type.
DeleteLikes(d, userId, entityId, entityType) ==
  [d EXCEPT !.likes = @ \ RowsOf(d, userId, entityId, entityType)]

\* NOW(): the clock never runs backwards; it is capped at MaxTime.
Clock(d) == { t \in d.now..(d.now + 1) : t <= MaxTime }

\* INSERT INTO likes (...): a fresh primary key, created_at = NOW().
InsertLike(d, userId, entityId, entityType, status, at) ==
  [d EXCEPT !.likes = @ \cup { [id |-> d.nextId,
                                user_id |-> userId,
                                user_login |-> LoginOf(userId),
                                entity_id |-> entityId,
                                entity_type |-> entityType,
                                status |-> status,
                                created_at |-> at] },
            !.nextId = @ + 1,
            !.now = at]

\* UPDATE likes SET status = $1 WHERE user_id, entity_id, entity_type.
UpdateLikeStatus(d, userId, entityId, entityType, status) ==
  [d EXCEPT !.likes =
     { IF r \in RowsOf(d, userId, entityId, entityType)
       THEN [r EXCEPT !.status = status] ELSE r : r \in @ }]

\* The counter column the post path touches for a status.
CounterOf(status) == IF status = Like THEN "likesCount" ELSE "dislikesCount"

\* UPDATE posts SET <counter> = <counter> + delta WHERE id = postId: a relative
\* update evaluated by the store; no deletion-status filter.
AddToCounter(d, postId, status, delta) ==
  IF postId \in DOMAIN d.posts
  THEN [d EXCEPT !.posts[postId][CounterOf(status)] = @ + delta]
  ELSE d

\* ------------------------------------------------------------- requests
\* A request in flight: the handler it runs, where it stands (pc), its
\* arguments and locals (e, u: entity and user; st: the normalized status;
\* cur: the status read; b: a blog id; arg: the new content); ret is what the
\* last finished handler returned (an exception is returned by its name).
Null == [null |-> TRUE]

Idle == [op |-> "none", pc |-> "idle", e |-> "-", u |-> "-", st |-> <<>>,
         cur |-> Undefined, b |-> "-", arg |-> 0, ret |-> Undefined,
         view |-> Null]

Returned(c, value) == [Idle EXCEPT !.ret = value]

\* A handler that resolves with an object.
Resolved(c, view) == [Idle EXCEPT !.ret = "object", !.view = view]

\* One step of a handler: the request after it and the store after it.
Out(c, d) == [c |-> c, d |-> d]

Quiet == \A p \in Procs : call[p].pc = "idle"

\* The counters stay in the model's range: a request is accepted only while
\* they do.
InRange ==
  \A id \in DOMAIN posts :
    /\ posts[id].likesCount \in (0 - MaxCount)..MaxCount
    /\ posts[id].dislikesCount \in (0 - MaxCount)..MaxCount

Init ==
  /\ likes = {}
  /\ posts = [id \in PostIds |->
                [blog_id |-> "b1", title |-> 0, shortDescription |-> 0,
                 content |-> 0, deletionStatus |-> "active",
                 likesCount |-> 0, dislikesCount |-> 0, createdAt |-> 0]]
  /\ comments = [id \in CommentIds |->
                   [content |-> 0, post_id |-> "e1", user_id |-> "u1",
                    deletion_status |-> "active", created_at |-> 0]]
  /\ now = 0
  /\ call = [p \in Procs |-> Idle]
  /\ arrived = 0

\* ------------------------------------- PostsRepository.updateLikeForPost
\* Line 321: the status is normalized before the first query.
updateLikeForPost(postId, userId, status) ==
  [Idle EXCEPT !.op = "updateLikeForPost", !.pc = "select", !.e = postId,
               !.u = userId, !.st = normalizeLikeStatus(status)]

\* AfterOldLike writing a row for every new status, None included.
AfterOldLike_Always(c) == [c EXCEPT !.pc = "insert"]

\* Line 352: a new row is written unless the new status is None.
AfterOldLike(c) ==
  IF c.st # None THEN [c EXCEPT !.pc = "insert"] ELSE Returned(c, Undefined)

\* Lines 324-333: SELECT the user's current status and branch on it.
PostSelect(c, d) ==
  { Out(IF cur # Undefined THEN [c EXCEPT !.pc = "delete", !.cur = cur]
        ELSE AfterOldLike(c), d)
    : cur \in SelectStatus(d, c.u, c.e, "Post") }

\* PostDelete with the DELETE filtering on the other entity type.
PostDelete_OtherType(c, d) ==
  { Out([c EXCEPT !.pc = "decrement"], DeleteLikes(d, c.u, c.e, "Comment")) }

\* Lines 334-337: DELETE the old row.
PostDelete(c, d) ==
  { Out([c EXCEPT !.pc = "decrement"], DeleteLikes(d, c.u, c.e, "Post")) }

\* PostDecrement taking the counter of the new status instead of the old one.
PostDecrement_NewStatus(c, d) ==
  { Out(AfterOldLike(c), AddToCounter(d, c.e, c.st, -1)) }

\* Lines 340-348: the counter of the old status, minus one.
PostDecrement(c, d) ==
  { Out(AfterOldLike(c), AddToCounter(d, c.e, c.cur, -1)) }

\* Lines 353-357: INSERT the new row.
PostInsert(c, d) ==
  { Out([c EXCEPT !.pc = "increment"],
        InsertLike(d, c.u, c.e, "Post", c.st, at)) : at \in Clock(d) }

\* PostIncrement writing the value it computed from the status it read at the
\* start (a read-modify-write in the application) instead of a relative update.
PostIncrement_Absolute(c, d) ==
  { Out(Returned(c, Undefined),
        IF c.e \in DOMAIN d.posts
        THEN [d EXCEPT !.posts[c.e][CounterOf(c.st)] = 1]
        ELSE d) }

\* Lines 360-368: the counter of the new status, plus one.
PostIncrement(c, d) ==
  { Out(Returned(c, Undefined), AddToCounter(d, c.e, c.st, 1)) }

\* ------------------------------- CommentRepository.updateLikeForComment
\* Lines 207-208: the status is capitalized before the first query.
updateLikeForComment(commentId, userId, status) ==
  [Idle EXCEPT !.op = "updateLikeForComment", !.pc = "first", !.e = commentId,
               !.u = userId, !.st = capitalize(status)]

\* Lines 210-223: for None the DELETE is the only query; otherwise SELECT the
\* existing rows and branch.
CommentFirst(c, d) ==
  IF c.st = None
  THEN { Out(Returned(c, Undefined), DeleteLikes(d, c.u, c.e, "Comment")) }
  ELSE { Out(IF RowsOf(d, c.u, c.e, "Comment") # {}
             THEN [c EXCEPT !.pc = "update"]
             ELSE [c EXCEPT !.pc = "cinsert"], d) }

\* Lines 224-227: UPDATE the status in place.
CommentUpdate(c, d) ==
  { Out(Returned(c, Undefined),
        UpdateLikeStatus(d, c.u, c.e, "Comment", c.st)) }

\* Lines 229-232: INSERT; created_at takes the column default now().
CommentInsert(c, d) ==
  { Out(Returned(c, Undefined),
        InsertLike(d, c.u, c.e, "Comment", c.st, at)) : at \in Clock(d) }

\* ---------------------------- PostsRepository.updatePost / deletePost
\* Texts (title, shortDescription, content of a post; content of a comment)
\* are numbered: 0 is the text at creation, 1 the text an update sends.
updatePost(postId, blogId, dto) ==
  [Idle EXCEPT !.op = "updatePost", !.pc = "updatePost", !.e = postId,
               !.b = blogId, !.arg = dto]

\* The post a WHERE id = :postId AND blog_id = :blogId matches.
PostOfBlog(d, postId, blogId) ==
  postId \in DOMAIN d.posts /\ d.posts[postId].blog_id = blogId

\* Lines 289-300: one UPDATE ... WHERE id AND blog_id; result.affected > 0,
\* the boolean written as text.
PostUpdate(c, d) ==
  IF PostOfBlog(d, c.e, c.b)
  THEN { Out(Returned(c, "true"),
             [d EXCEPT !.posts[c.e].title = c.arg,
                       !.posts[c.e].shortDescription = c.arg,
                       !.posts[c.e].content = c.arg]) }
  ELSE { Out(Returned(c, "false"), d) }

deletePost(postId, blogId) ==
  [Idle EXCEPT !.op = "deletePost", !.pc = "deletePost", !.e = postId,
               !.b = blogId]

\* Lines 304-311: one UPDATE setting deletionStatus, WHERE id AND blog_id.
PostSoftDelete(c, d) ==
  IF PostOfBlog(d, c.e, c.b)
  THEN { Out(Returned(c, "true"),
             [d EXCEPT !.posts[c.e].deletionStatus = "deleted"]) }
  ELSE { Out(Returned(c, "false"), d) }

\* ------------------------------------------------------- CommentService
ActiveComment_AnyStatus(d, commentId) == commentId \in DOMAIN d.comments

\* CommentRepository.findById, lines 30-39: the comment, when it is active.
ActiveComment(d, commentId) ==
  commentId \in DOMAIN d.comments
    /\ d.comments[commentId].deletion_status = "active"

Guarded_AuthorFirst(c, d, pc) ==
  IF c.e \in DOMAIN d.comments /\ d.comments[c.e].user_id # c.u
  THEN Returned(c, "ForbiddenException")
  ELSE IF ~ ActiveComment(d, c.e) THEN Returned(c, "NotFoundException")
  ELSE [c EXCEPT !.pc = pc]

\* part_000 lines 74-81 and 102-109: existence first, then authorship.
Guarded(c, d, pc) ==
  IF ~ ActiveComment(d, c.e) THEN Returned(c, "NotFoundException")
  ELSE IF d.comments[c.e].user_id # c.u THEN Returned(c, "ForbiddenException")
  ELSE [c EXCEPT !.pc = pc]

updateComment(commentId, content, userId) ==
  [Idle EXCEPT !.op = "updateComment", !.pc = "ucFind", !.e = commentId,
               !.u = userId, !.arg = content]

UpdateCommentFind(c, d) == { Out(Guarded(c, d, "ucWrite"), d) }

\* CommentRepository.updateContent: UPDATE comments SET content WHERE id.
UpdateCommentWrite(c, d) ==
  { Out(Returned(c, Undefined),
        IF c.e \in DOMAIN d.comments
        THEN [d EXCEPT !.comments[c.e].content = c.arg] ELSE d) }

deleteComment(commentId, userId) ==
  [Idle EXCEPT !.op = "deleteComment", !.pc = "dcFind", !.e = commentId,
               !.u = userId]

DeleteCommentFind(c, d) == { Out(Guarded(c, d, "dcWrite"), d) }

\* CommentRepository.delete: UPDATE comments SET deletion_status WHERE id.
DeleteCommentWrite(c, d) ==
  { Out(Returned(c, Undefined),
        IF c.e \in DOMAIN d.comments
        THEN [d EXCEPT !.comments[c.e].deletion_status = "deleted"] ELSE d) }

\* part_000 lines 114-131: findById, then updateLikeForComment.
likeComment(commentId, userId, status) ==
  [Idle EXCEPT !.op = "likeComment", !.pc = "lcFind", !.e = commentId,
               !.u = userId, !.st = status]

LikeCommentFind(c, d) ==
  { Out(IF ~ ActiveComment(d, c.e) THEN Returned(c, "NotFoundException")
        ELSE [c EXCEPT !.pc = "first", !.st = capitalize(c.st)], d) }

\* ------------------------------------------------------------------ reads
\* A read changes nothing in the store: it is the value its queries return in
\* the current state. Where the store leaves the order of rows open (equal
\* sort keys, several rows of one user) a read is the set of its possible
\* results.
NoUser == "anonymous"

\* Date.prototype.toISOString: the timestamp as text.
toISOString(t) == <<"iso", t>>

Range(seq) == { seq[i] : i \in 1..Len(seq) }

Min(a, b) == IF a <= b THEN a ELSE b

\* ORDER BY <key> ASC|DESC over rows: every order of the rows that respects
\* the key.
Sorted(rows, key, direction) ==
  { s \in [1..Cardinality(rows) -> rows] :
      /\ \A i, j \in 1..Cardinality(rows) : i # j => s[i] # s[j]
      /\ \A i, j \in 1..Cardinality(rows) :
           i < j => IF direction = "ASC" THEN key[s[i]] <= key[s[j]]
                    ELSE key[s[i]] >= key[s[j]] }

\* LIMIT n: the first n rows.
Limit(seq, n) == SubSeq(seq, 1, Min(n, Len(seq)))

\* ... FROM likes WHERE entity_id = ANY(postIds) AND entity_type = 'Post' AND
\* status = 'Like' ORDER BY created_at DESC LIMIT 3.
NewestLikeRows(d, postIds) ==
  LET rows == { r \in d.likes : /\ r.entity_id \in postIds
                                /\ r.entity_type = "Post"
                                /\ r.status = Like }
  IN { Limit(s, 3) :
         s \in Sorted(rows, [r \in rows |-> r.created_at], "DESC") }

LikeDetails(r) ==
  [addedAt |-> toISOString(r.created_at), userId |-> r.user_id,
   login |-> r.user_login]

ActivePost(d, postId) ==
  postId \in DOMAIN d.posts /\ d.posts[postId].deletionStatus = "active"

\* PostsRepository.findPostById, lines 244-252.
MyPostStatus(d, postId, userId) ==
  IF userId = NoUser THEN {None}
  ELSE { normalizeLikeStatus(IF st = Undefined THEN None ELSE st)
         : st \in SelectStatus(d, userId, postId, "Post") }

\* The name of a blog, as its place in the collation order.
BlogName == [b1 |-> 1, b2 |-> 2]

PostFields(d, postId, info) ==
  [id |-> postId,
   title |-> d.posts[postId].title,
   shortDescription |-> d.posts[postId].shortDescription,
   content |-> d.posts[postId].content,
   blogId |-> d.posts[postId].blog_id,
   blogName |-> BlogName[d.posts[postId].blog_id],
   createdAt |-> toISOString(d.posts[postId].createdAt),
   extendedLikesInfo |-> info]

\* PostsRepository.findPostById, lines 229-282.
findPostById(d, postId, userId) ==
  IF ~ ActivePost(d, postId) THEN {Null}
  ELSE { PostFields(d, postId,
           [likesCount |-> d.posts[postId].likesCount,
            dislikesCount |-> d.posts[postId].dislikesCount,
            myStatus |-> ms,
            newestLikes |-> [i \in 1..Len(nl) |-> LikeDetails(nl[i])]])
         : ms \in MyPostStatus(d, postId, userId),
           nl \in NewestLikeRows(d, {postId}) }

\* CommentRepository.findById, lines 56-66: the stored status, as it is.
MyCommentStatus(d, commentId, userId) ==
  IF userId = NoUser THEN {None}
  ELSE { IF st = Undefined THEN None ELSE st
         : st \in SelectStatus(d, userId, commentId, "Comment") }

\* SELECT COUNT(*) FROM likes WHERE entity_id, entity_type = 'Comment', status.
CountLikes(d, commentId, status) ==
  Cardinality({ r \in d.likes : /\ r.entity_id = commentId
                                /\ r.entity_type = "Comment"
                                /\ r.status = status })

\* CommentRepository.findById, lines 29-82.
findById(d, commentId, currentUserId) ==
  IF ~ ActiveComment(d, commentId) THEN {Null}
  ELSE { [id |-> commentId,
          content |-> d.comments[commentId].content,
          commentatorInfo |->
            [userId |-> d.comments[commentId].user_id,
             userLogin |-> LoginOf(d.comments[commentId].user_id)],
          createdAt |-> toISOString(d.comments[commentId].created_at),
          likesInfo |-> [likesCount |-> CountLikes(d, commentId, Like),
                         dislikesCount |-> CountLikes(d, commentId, Dislike),
                         myStatus |-> ms]]
         : ms \in MyCommentStatus(d, commentId, currentUserId) }

\* CommentRepository.findUserReaction, lines 84-94: result[0] || null.
findUserReaction(d, entityId, userId, entityType) ==
  IF RowsOf(d, userId, entityId, entityType) = {} THEN {Null}
  ELSE { [status |-> r.status] : r \in RowsOf(d, userId, entityId, entityType) }

\* --------------------------------------------------------------- listings
\* A query is [pageNumber, pageSize, sortBy, sortDirection]; each field is
\* the set of the value the client sent, empty when it sent none.
NotSent == {}
Sent(value) == {value}
ValueOf(x) == CHOOSE value \in x : TRUE

\* A call that fails: the error it throws.
Thrown(name) == [error |-> name]

\* The store rejects a negative LIMIT or OFFSET, and text that is not SQL.
StorageError == Thrown("QueryFailedError")

\* SelectQueryBuilder.orderBy accepts only "ASC" and "DESC".
OrderError == Thrown("TypeORMError")

\* x || dflt on a number: undefined and 0 are falsy.
OrElse(x, dflt) == IF x = NotSent \/ x = Sent(0) THEN dflt ELSE ValueOf(x)

\* A destructuring default, { x = dflt }: only undefined takes it.
Default(x, dflt) == IF x = NotSent THEN dflt ELSE ValueOf(x)

\* Math.ceil(a / b) for a >= 0.
Ceil(a, b) ==
  IF b > 0 THEN (a + b - 1) \div b
  ELSE IF b < 0 THEN 0 - (a \div (0 - b))
  ELSE IF a = 0 THEN "NaN" ELSE "Infinity"

upperCase(str) == [i \in 1..Len(str) |-> toUpperCase(str[i])]

ASC == <<"A", "S", "C">>
DESC == <<"D", "E", "S", "C">>

Slice_NoOffset(seq, skip, take) == SubSeq(seq, 1, Min(take, Len(seq)))

\* LIMIT take OFFSET skip.
Slice(seq, skip, take) ==
  IF skip >= Len(seq) THEN <<>>
  ELSE SubSeq(seq, skip + 1, Min(skip + take, Len(seq)))

\* CommentRepository.getCommentsForPost, lines 119-127.
\* sortableFieldsMap is an object literal: a lookup also finds the names it
\* inherits from Object.prototype, whose values are functions.
InheritedNames == {"constructor", "toString"}

NativeCode == "function () { [native code] }"

CommentSortColumn(sortBy) ==
  IF sortBy = Sent("content") THEN "content"
  ELSE IF sortBy # NotSent /\ ValueOf(sortBy) \in InheritedNames THEN NativeCode
  ELSE "created_at"

CommentSortDirection(sortDirection) ==
  IF sortDirection # NotSent /\ upperCase(ValueOf(sortDirection)) = ASC
  THEN "ASC" ELSE "DESC"

\* Lines 160-189: one item of the page.
CommentItem(d, id, myStatus) ==
  [id |-> id,
   content |-> d.comments[id].content,
   commentatorInfo |-> [userId |-> d.comments[id].user_id,
                        userLogin |-> LoginOf(d.comments[id].user_id)],
   createdAt |-> d.comments[id].created_at,
   likesInfo |-> [likesCount |-> CountLikes(d, id, Like),
                  dislikesCount |-> CountLikes(d, id, Dislike),
                  myStatus |-> myStatus]]

\* The ways to give each listed entity one of its possible viewer statuses.
StatusChoices(possible) ==
  { f \in [DOMAIN possible -> UNION { possible[id] : id \in DOMAIN possible }] :
      \A id \in DOMAIN possible : f[id] \in possible[id] }

\* WHERE c.post_id = $1 AND c.deletion_status = 'active' (line 143).
CommentsOfPost(d, postId) ==
  { id \in DOMAIN d.comments : /\ d.comments[id].post_id = postId
                               /\ d.comments[id].deletion_status = "active" }

\* ORDER BY ${sortBy} (line 145): the value each row is ordered by.
CommentSortKey(d, matching, column) ==
  [id \in matching |-> d.comments[id][column]]

\* CommentRepository.getCommentsForPost, lines 109-199.
getCommentsForPost(d, postId, query, currentUserId) ==
  LET page == OrElse(query.pageNumber, 1)
      pageSize == OrElse(query.pageSize, 10)
      skip == (page - 1) * pageSize
      column == CommentSortColumn(query.sortBy)
      matching == CommentsOfPost(d, postId)
      totalCount == Cardinality(matching)
      key == CommentSortKey(d, matching, column)
      status == [id \in matching |-> MyCommentStatus(d, id, currentUserId)]
  IN IF skip < 0 \/ pageSize < 0 \/ column = NativeCode THEN {StorageError}
     ELSE { [pagesCount |-> Ceil(totalCount, pageSize),
             page |-> page,
             pageSize |-> pageSize,
             totalCount |-> totalCount,
             items |-> [i \in 1..Len(Slice(s, skip, pageSize)) |->
                          CommentItem(d, Slice(s, skip, pageSize)[i],
                                      ms[Slice(s, skip, pageSize)[i]])]]
            : s \in Sorted(matching, key,
                           CommentSortDirection(query.sortDirection)),
              ms \in StatusChoices(status) }

\* PostsRepository, lines 45-53 and 165-174: the sort field, when allowed.
SafeSortBy(sortBy, allowedSortFields) ==
  IF sortBy \in allowedSortFields THEN sortBy ELSE "createdAt"

\* PostsRepository.getNewestLikes, lines 130-152: the three newest Like rows
\* of the whole page, grouped by post in that order.
GroupByPost(rows, postId) ==
  LET RECURSIVE Pick(_)
      Pick(seq) ==
        IF seq = <<>> THEN <<>>
        ELSE IF Head(seq).entity_id = postId
             THEN <<LikeDetails(Head(seq))>> \o Pick(Tail(seq))
             ELSE Pick(Tail(seq))
  IN Pick(rows)

\* Lines 71-104 and 195-226: the viewer's statuses and the newest likes of
\* the posts of the page, and the result.
PostItems(d, pageIds, paging, userId) ==
  LET status == [id \in Range(pageIds) |-> MyPostStatus(d, id, userId)]
  IN { [pagesCount |-> Ceil(paging.totalCount, paging.pageSize),
        page |-> paging.pageNumber,
        pageSize |-> paging.pageSize,
        totalCount |-> paging.totalCount,
        items |-> [i \in 1..Len(pageIds) |->
                     PostFields(d, pageIds[i],
                       [likesCount |-> d.posts[pageIds[i]].likesCount,
                        dislikesCount |-> d.posts[pageIds[i]].dislikesCount,
                        myStatus |-> ms[pageIds[i]],
                        newestLikes |-> GroupByPost(nl, pageIds[i])])]]
       : ms \in StatusChoices(status),
         nl \in NewestLikeRows(d, Range(pageIds)) }

\* skip(n).take(m) of the query builder (lines 66-67 and 191): the rows a
\* page gets. The builder leaves a take of 0 out of the query or passes it on
\* as LIMIT 0, depending on its version: either all rows from skip, or none.
SkipTake(seq, skip, take) ==
  IF take = 0 THEN {Slice(seq, skip, Len(seq)), <<>>}
  ELSE {Slice(seq, skip, take)}

\* orderBy(`post.${safeSortBy}`) / orderBy('blog.name') (lines 61-65 and
\* 183-190): the value each post is ordered by.
PostSortKey(d, matching, safeSortBy) ==
  [id \in matching |->
     IF safeSortBy = "blogName" THEN BlogName[d.posts[id].blog_id]
     ELSE d.posts[id][safeSortBy]]

\* The page of a post listing: lines 38-69 and 158-193.
PostPage(d, matching, query, allowedSortFields, userId) ==
  LET pageNumber == Default(query.pageNumber, 1)
      pageSize == Default(query.pageSize, 10)
      safeSortBy == SafeSortBy(Default(query.sortBy, "createdAt"),
                               allowedSortFields)
      direction == upperCase(Default(query.sortDirection, <<"d", "e", "s", "c">>))
      skip == (pageNumber - 1) * pageSize
      key == PostSortKey(d, matching, safeSortBy)
  IN IF direction \notin {ASC, DESC} THEN {OrderError}
     ELSE IF skip < 0 \/ pageSize < 0 THEN {StorageError}
     ELSE UNION { PostItems(d, ids,
                            [pageNumber |-> pageNumber, pageSize |-> pageSize,
                             totalCount |-> Cardinality(matching)], userId)
                  : ids \in UNION { SkipTake(s, skip, pageSize) :
                                      s \in Sorted(matching, key,
                                        IF direction = ASC THEN "ASC"
                                        ELSE "DESC") } }

\* PostsRepository.getPostsByBlogId, lines 33-105.
PostsOfBlog(d, blogId) ==
  { id \in DOMAIN d.posts : d.posts[id].blog_id = blogId /\ ActivePost(d, id) }

BlogSortFields == {"createdAt", "title", "shortDescription", "content"}

getPostsByBlogId(d, blogId, query, userId) ==
  PostPage(d, PostsOfBlog(d, blogId), query, BlogSortFields, userId)

\* PostsRepository.getAllPostsWithPagination, lines 154-227.
ActivePosts(d) == { id \in DOMAIN d.posts : ActivePost(d, id) }

AllSortFields == BlogSortFields \cup {"blogName"}

getAllPostsWithPagination(d, query, userId) ==
  PostPage(d, ActivePosts(d), query, AllSortFields, userId)

\* ------------------------------------------- CommentService.createComment
\* The ids gen_random_uuid() gives to new comments.
NewCommentIds == {"e5", "e6"}

FreshCommentId(d) == CHOOSE id \in NewCommentIds : id \notin DOMAIN d.comments

createComment(postId, userId, dto) ==
  [Idle EXCEPT !.op = "createComment", !.pc = "ccFind", !.e = postId,
               !.u = userId, !.arg = dto]

\* PostsService.getPostById: the post, when it exists and is not deleted.
PostFound(d, postId) == ActivePost(d, postId)

\* part_000 lines 27-28.
CreateCommentFind(c, d) ==
  { Out(IF ~ PostFound(d, c.e) THEN Returned(c, "NotFoundException")
        ELSE [c EXCEPT !.pc = "ccInsert"], d) }

\* part_000 lines 37-50: the view built from the inserted row.
CreatedView(c, id, at) ==
  [id |-> id,
   content |-> c.arg,
   commentatorInfo |-> [userId |-> c.u, userLogin |-> LoginOf(c.u)],
   createdAt |-> toISOString(at),
   likesInfo |-> [likesCount |-> 0, dislikesCount |-> 0, myStatus |-> None]]

CreateCommentInsert_OtherPost(c, d) ==
  { Out(Resolved(c, CreatedView(c, FreshCommentId(d), at)),
        [d EXCEPT !.now = at,
                  !.comments =
                    [id \in DOMAIN @ \cup {FreshCommentId(d)} |->
                       IF id \in DOMAIN @ THEN @[id]
                       ELSE [content |-> c.arg, post_id |-> "-", user_id |-> c.u,
                             deletion_status |-> "active", created_at |-> at]]])
    : at \in Clock(d) }

\* CommentRepository.create (INSERT ... RETURNING *), lines 11-27.
CreateCommentInsert(c, d) ==
  { Out(Resolved(c, CreatedView(c, FreshCommentId(d), at)),
        [d EXCEPT !.now = at,
                  !.comments =
                    [id \in DOMAIN @ \cup {FreshCommentId(d)} |->
                       IF id \in DOMAIN @ THEN @[id]
                       ELSE [content |-> c.arg, post_id |-> c.e, user_id |-> c.u,
                             deletion_status |-> "active", created_at |-> at]]])
    : at \in Clock(d) }

\* CommentService.getCommentsForPost, part_000 lines 86-99.
CommentsForPost(d, postId, query, currentUserId) ==
  IF ~ PostFound(d, postId) THEN {Thrown("NotFoundException")}
  ELSE getCommentsForPost(d, postId, query, currentUserId)

\* ----------------------------------------------------- running handlers
\* The next storage call of a request in flight.
StepOf(c, d) ==
  CASE c.pc = "select" -> PostSelect(c, d)
    [] c.pc = "delete" -> PostDelete(c, d)
    [] c.pc = "decrement" -> PostDecrement(c, d)
    [] c.pc = "insert" -> PostInsert(c, d)
    [] c.pc = "increment" -> PostIncrement(c, d)
    [] c.pc = "first" -> CommentFirst(c, d)
    [] c.pc = "update" -> CommentUpdate(c, d)
    [] c.pc = "cinsert" -> CommentInsert(c, d)
    [] c.pc = "updatePost" -> PostUpdate(c, d)
    [] c.pc = "deletePost" -> PostSoftDelete(c, d)
    [] c.pc = "ucFind" -> UpdateCommentFind(c, d)
    [] c.pc = "ucWrite" -> UpdateCommentWrite(c, d)
    [] c.pc = "dcFind" -> DeleteCommentFind(c, d)
    [] c.pc = "dcWrite" -> DeleteCommentWrite(c, d)
    [] c.pc = "lcFind" -> LikeCommentFind(c, d)
    [] c.pc = "ccFind" -> CreateCommentFind(c, d)
    [] c.pc = "ccInsert" -> CreateCommentInsert(c, d)
    [] OTHER -> {}

\* A handler run from c to its return with no other request in between: the
\* outcomes it can have.
RECURSIVE RunToEnd(_, _)
RunToEnd(c, d) ==
  IF c.pc = "idle" THEN { Out(c, d) }
  ELSE UNION { RunToEnd(o.c, o.d) : o \in StepOf(c, d) }

\* The stores a handler run from c leaves between its storage calls, before
\* its last one: what a request running at the same time can read.
RECURSIVE Passes(_, _)
Passes(c, d) ==
  IF c.pc = "idle" THEN {}
  ELSE UNION { (IF o.c.pc = "idle" THEN {} ELSE {o.d}) \cup Passes(o.c, o.d)
               : o \in StepOf(c, d) }

\* Request p takes one of the steps outs; what a handler returns goes to its
\* caller and is not kept.
Take(p, outs) ==
  \E o \in outs :
    /\ call' = [call EXCEPT ![p] = IF o.c.pc = "idle" THEN Idle ELSE o.c]
    /\ Commit(o.d)

\* A request arrives (admit says when one is accepted) and runs to the end of
\* its first storage call.
Arrive(p, c, admit) ==
  /\ call[p].pc = "idle"
  /\ InRange
  /\ Take(p, StepOf(c, DB))
  /\ admit

\* S names the users and entities the requests of a specification are about.
UpdateLikeForPost_Select(p, S, admit) ==
  \E postId \in S.posts, userId \in S.users, status \in StatusInputs :
    Arrive(p, updateLikeForPost(postId, userId, status), admit)

UpdateLikeForPost_Delete(p) ==
  /\ call[p].pc = "delete"
  /\ Take(p, PostDelete(call[p], DB))
  /\ UNCHANGED arrived

UpdateLikeForPost_Decrement(p) ==
  /\ call[p].pc = "decrement"
  /\ Take(p, PostDecrement(call[p], DB))
  /\ UNCHANGED arrived

UpdateLikeForPost_Insert(p) ==
  /\ call[p].pc = "insert"
  /\ Take(p, PostInsert(call[p], DB))
  /\ UNCHANGED arrived

UpdateLikeForPost_Increment(p) ==
  /\ call[p].pc = "increment"
  /\ Take(p, PostIncrement(call[p], DB))
  /\ UNCHANGED arrived

UpdateLikeForComment_First(p, S, admit) ==
  \E commentId \in S.comments, userId \in S.users, status \in StatusInputs :
    Arrive(p, updateLikeForComment(commentId, userId, status), admit)

UpdateLikeForComment_Update(p) ==
  /\ call[p].pc = "update"
  /\ Take(p, CommentUpdate(call[p], DB))
  /\ UNCHANGED arrived

UpdateLikeForComment_Insert(p) ==
  /\ call[p].pc = "cinsert"
  /\ Take(p, CommentInsert(call[p], DB))
  /\ UNCHANGED arrived

UpdatePost(p, S, admit) ==
  \E postId \in S.posts, blogId \in Blogs, dto \in {1} :
    Arrive(p, updatePost(postId, blogId, dto), admit)

DeletePost(p, S, admit) ==
  \E postId \in S.posts, blogId \in Blogs :
    Arrive(p, deletePost(postId, blogId), admit)

UpdateComment_Find(p, S, admit) ==
  \E commentId \in S.comments, userId \in Users :
    Arrive(p, updateComment(commentId, 1, userId), admit)

UpdateComment_Write(p) ==
  /\ call[p].pc = "ucWrite"
  /\ Take(p, UpdateCommentWrite(call[p], DB))
  /\ UNCHANGED arrived

DeleteComment_Find(p, S, admit) ==
  \E commentId \in S.comments, userId \in Users :
    Arrive(p, deleteComment(commentId, userId), admit)

DeleteComment_Write(p) ==
  /\ call[p].pc = "dcWrite"
  /\ Take(p, DeleteCommentWrite(call[p], DB))
  /\ UNCHANGED arrived

LikeComment_Find(p, S, admit) ==
  \E commentId \in S.comments, userId \in S.users, status \in StatusInputs :
    Arrive(p, likeComment(commentId, userId, status), admit)

LikeComment_First(p) ==
  /\ call[p].pc = "first"
  /\ Take(p, CommentFirst(call[p], DB))
  /\ UNCHANGED arrived

CreateComment_Find(p, S, admit) ==
  \E postId \in S.posts, userId \in S.users :
    /\ NewCommentIds \ DOMAIN comments # {}
    /\ Arrive(p, createComment(postId, userId, 1), admit)

CreateComment_Insert(p) ==
  /\ call[p].pc = "ccInsert"
  /\ Take(p, CreateCommentInsert(call[p], DB))
  /\ UNCHANGED arrived

\* --------------------------------------------------------- specifications
Everyone == [users |-> Users, posts |-> PostIds, comments |-> CommentIds]

\* Requests interleave freely at their storage calls; MaxRequests of them are
\* accepted.
Bounded == arrived < MaxRequests /\ arrived' = arrived + 1

Next ==
  \E p \in Procs :
    \/ UpdateLikeForPost_Select(p, Everyone, Bounded)
    \/ UpdateLikeForPost_Delete(p)
    \/ UpdateLikeForPost_Decrement(p)
    \/ UpdateLikeForPost_Insert(p)
    \/ UpdateLikeForPost_Increment(p)
    \/ UpdateLikeForComment_First(p, Everyone, Bounded)
    \/ UpdateLikeForComment_Update(p)
    \/ UpdateLikeForComment_Insert(p)

Spec == Init /\ [][Next]_vars

\* Requests do not overlap: one is accepted only when none is in flight.
OneAtATime == Quiet /\ UNCHANGED arrived

SeqNext ==
  \E p \in {"r1"} :
    \/ UpdateLikeForPost_Select(p, Everyone, OneAtATime)
    \/ UpdateLikeForPost_Delete(p)
    \/ UpdateLikeForPost_Decrement(p)
    \/ UpdateLikeForPost_Insert(p)
    \/ UpdateLikeForPost_Increment(p)
    \/ UpdateLikeForComment_First(p, Everyone, OneAtATime)
    \/ UpdateLikeForComment_Update(p)
    \/ UpdateLikeForComment_Insert(p)

SeqSpec == Init /\ [][SeqNext]_vars

\* Requests overlap, but never two of the same user on the same entity.
OtherUsers(p) ==
  /\ \A q \in Procs \ {p} :
       (call[q].pc # "idle" /\ call'[p].pc # "idle")
         => <<call[q].u, call[q].e>> # <<call'[p].u, call'[p].e>>
  /\ UNCHANGED arrived

UserNext ==
  \E p \in Procs :
    \/ UpdateLikeForPost_Select(p, Everyone, OtherUsers(p))
    \/ UpdateLikeForPost_Delete(p)
    \/ UpdateLikeForPost_Decrement(p)
    \/ UpdateLikeForPost_Insert(p)
    \/ UpdateLikeForPost_Increment(p)
    \/ UpdateLikeForComment_First(p, Everyone, OtherUsers(p))
    \/ UpdateLikeForComment_Update(p)
    \/ UpdateLikeForComment_Insert(p)

UserSpec == Init /\ [][UserNext]_vars

\* A post and a comment are edited and soft-deleted, and one user reacts to
\* them, one request at a time, in a store of two posts and two comments.
CrudInit ==
  /\ likes = {}
  /\ posts = [id \in {"e1", "e3"} |->
                [blog_id |-> "b1", title |-> 0, shortDescription |-> 0,
                 content |-> 0, deletionStatus |-> "active",
                 likesCount |-> 0, dislikesCount |-> 0, createdAt |-> 0]]
  /\ comments = [id \in {"e2", "e4"} |->
                   [content |-> 0, post_id |-> "e1",
                    user_id |-> IF id = "e2" THEN "u1" ELSE "u2",
                    deletion_status |-> "active", created_at |-> 0]]
  /\ now = 0
  /\ call = [p \in Procs |-> Idle]
  /\ arrived = 0

OneUser == [users |-> {"u1"}, posts |-> {"e1"}, comments |-> {"e2"}]

CrudNext ==
  \E p \in {"r1"} :
    \/ UpdateLikeForPost_Select(p, OneUser, OneAtATime)
    \/ UpdateLikeForPost_Delete(p)
    \/ UpdateLikeForPost_Decrement(p)
    \/ UpdateLikeForPost_Insert(p)
    \/ UpdateLikeForPost_Increment(p)
    \/ UpdateLikeForComment_First(p, OneUser, OneAtATime)
    \/ UpdateLikeForComment_Update(p)
    \/ UpdateLikeForComment_Insert(p)
    \/ LikeComment_Find(p, OneUser, OneAtATime)
    \/ LikeComment_First(p)
    \/ UpdatePost(p, OneUser, OneAtATime)
    \/ DeletePost(p, OneUser, OneAtATime)
    \/ UpdateComment_Find(p, OneUser, OneAtATime)
    \/ UpdateComment_Write(p)
    \/ DeleteComment_Find(p, OneUser, OneAtATime)
    \/ DeleteComment_Write(p)

CrudSpec == CrudInit /\ [][CrudNext]_vars

\* Comments are written under the two posts, and posts and comments are
\* soft-deleted, one request at a time.
Written == [users |-> Users, posts |-> {"e1", "e3"}, comments |-> {"e2", "e5"}]

CreateNext ==
  \E p \in {"r1"} :
    \/ CreateComment_Find(p, Written, OneAtATime)
    \/ CreateComment_Insert(p)
    \/ DeletePost(p, Written, OneAtATime)
    \/ DeleteComment_Find(p, Written, OneAtATime)
    \/ DeleteComment_Write(p)

CreateSpec == CrudInit /\ [][CreateNext]_vars

\* Both users edit, delete and react to one comment through the service, their
\* requests interleaved at the storage calls; MaxRequests are accepted.
OneComment == [users |-> Users, posts |-> {}, comments |-> {"e2"}]

RaceNext ==
  \E p \in Procs :
    \/ UpdateComment_Find(p, OneComment, Bounded)
    \/ UpdateComment_Write(p)
    \/ DeleteComment_Find(p, OneComment, Bounded)
    \/ DeleteComment_Write(p)
    \/ LikeComment_Find(p, OneComment, Bounded)
    \/ LikeComment_First(p)
    \/ UpdateLikeForComment_Update(p)
    \/ UpdateLikeForComment_Insert(p)

RaceSpec == CrudInit /\ [][RaceNext]_vars

\* Both users react to post e1, and one of them also to post e3 and, through
\* the comment path, to the id e1 (the repository takes any id and separates
\* posts from comments by entity_type alone), one request at a time.
FrameScopes ==
  [onPost |-> [users |-> Users, posts |-> {"e1"}, comments |-> {}],
   otherPost |-> [users |-> {"u1"}, posts |-> {"e3"}, comments |-> {}],
   asComment |-> [users |-> {"u1"}, posts |-> {}, comments |-> {"e1"}]]

FrameNext ==
  \E p \in {"r1"} :
    \/ UpdateLikeForPost_Select(p, FrameScopes.onPost, OneAtATime)
    \/ UpdateLikeForPost_Select(p, FrameScopes.otherPost, OneAtATime)
    \/ UpdateLikeForPost_Delete(p)
    \/ UpdateLikeForPost_Decrement(p)
    \/ UpdateLikeForPost_Insert(p)
    \/ UpdateLikeForPost_Increment(p)
    \/ UpdateLikeForComment_First(p, FrameScopes.asComment, OneAtATime)
    \/ UpdateLikeForComment_Update(p)
    \/ UpdateLikeForComment_Insert(p)

FrameSpec == CrudInit /\ [][FrameNext]_vars

\* ------------------------------------------------------------------ claims
LikeRows(d, postId, status) ==
  { r \in d.likes : /\ r.entity_id = postId
                    /\ r.entity_type = "Post"
                    /\ r.status = status }

UsersWith(d, postId, status) ==
  { u \in Users : \E r \in RowsOf(d, u, postId, "Post") : r.status = status }

\* C1: with requests that do not overlap, every (entity, entity type, user)
\* has at most one likes row, in every state.
C1_UniqueSequential ==
  \A u \in Users, e \in PostIds \cup CommentIds, t \in {"Post", "Comment"} :
    Cardinality(RowsOf(DB, u, e, t)) <= 1

\* A second reaction of the same user on the same post has replaced the first
\* (its row was written after the clock moved), beside a comment reaction.
C1_Witness ==
  /\ Quiet
  /\ \E r \in likes : r.entity_type = "Post" /\ r.created_at = 1
                        /\ r.status = Dislike
  /\ \E r \in likes : r.entity_type = "Comment"
  /\ now = 1

\* C2: with requests interleaved at their storage calls, no two likes rows
\* ever share (entity, entity type, user).
C2_UniqueConcurrent ==
  ~ \E r1 \in likes, r2 \in likes :
      /\ r1 # r2
      /\ r1.user_id = r2.user_id
      /\ r1.entity_id = r2.entity_id
      /\ r1.entity_type = r2.entity_type

\* C3: when no request is in flight (requests not overlapping), each post's
\* likesCount is the number of users whose reaction is Like, and dislikesCount
\* the number whose reaction is Dislike.
C3_CounterConsistency ==
  Quiet =>
    \A id \in PostIds :
      /\ posts[id].likesCount = Cardinality(UsersWith(DB, id, Like))
      /\ posts[id].dislikesCount = Cardinality(UsersWith(DB, id, Dislike))

\* Two users have reacted to the post, one of them after changing their mind.
C3_Witness ==
  /\ Quiet
  /\ posts["e1"].likesCount = 1
  /\ posts["e1"].dislikesCount = 1
  /\ \E r \in likes : r.status = Like /\ r.created_at = 1
  /\ \E r \in likes : r.status = Dislike /\ r.created_at = 1

\* C4: the post counters are never negative, whatever the interleaving.
C4_CountersNonNegative ==
  \A id \in PostIds : posts[id].likesCount >= 0 /\ posts[id].dislikesCount >= 0

\* C5: with concurrent requests of distinct users, once none is in flight the
\* counters of each post equal the numbers of its Like and Dislike rows.
C5_NoLostUpdate ==
  Quiet =>
    \A id \in PostIds :
      /\ posts[id].likesCount = Cardinality(LikeRows(DB, id, Like))
      /\ posts[id].dislikesCount = Cardinality(LikeRows(DB, id, Dislike))

\* Two users' requests on the same post are in flight at once, both having
\* written their row and about to add to the same counter.
C5_Witness ==
  /\ call["r1"].pc = "increment" /\ call["r2"].pc = "increment"
  /\ call["r1"].e = call["r2"].e
  /\ call["r1"].st = call["r2"].st
  /\ call["r1"].u # call["r2"].u

\* The viewers of a read, and the queries of a listing the claims look at.
Viewers == Users \cup {NoUser}

Queries ==
  { [pageNumber |-> NotSent, pageSize |-> NotSent, sortBy |-> NotSent,
     sortDirection |-> NotSent],
    [pageNumber |-> Sent(1), pageSize |-> Sent(1), sortBy |-> Sent("title"),
     sortDirection |-> Sent(<<"a", "s", "c">>)],
    [pageNumber |-> Sent(2), pageSize |-> Sent(1), sortBy |-> Sent("content"),
     sortDirection |-> Sent(<<"d", "e", "s", "c">>)],
    [pageNumber |-> Sent(1), pageSize |-> NotSent,
     sortBy |-> Sent("dropTable"), sortDirection |-> NotSent] }

\* What a viewer can observe of a post or a comment after a reaction.
PostViews(d, postId) == [v \in Viewers |-> findPostById(d, postId, v)]
CommentViews(d, commentId) == [v \in Viewers |-> findById(d, commentId, v)]

\* C6: for every entity, user and status in {Like, Dislike, None}, setting
\* the reaction twice in a row leaves the same observable state as setting it
\* once: same viewer status, same counts, and for posts the same newestLikes
\* (members, order, addedAt).
C6_Idempotent ==
  Quiet =>
    \A u \in Users, s \in LikeStatus :
      /\ \A e \in PostIds :
           \A o1 \in RunToEnd(updateLikeForPost(e, u, s), DB) :
             \A o2 \in RunToEnd(updateLikeForPost(e, u, s), o1.d) :
               PostViews(o2.d, e) = PostViews(o1.d, e)
      /\ \A e \in CommentIds :
           \A o1 \in RunToEnd(updateLikeForComment(e, u, s), DB) :
             \A o2 \in RunToEnd(updateLikeForComment(e, u, s), o1.d) :
               CommentViews(o2.d, e) = CommentViews(o1.d, e)

\* The stores a handler can leave when run alone from the current state.
StoresAfter(c) == { o.d : o \in RunToEnd(c, DB) }

\* C7: on both reaction paths, a spelling that differs from Like, Dislike or
\* None only in letter case leaves the same stored row and counters as the
\* canonical spelling.
C7_CaseInsensitive ==
  Quiet =>
    \A u \in Users, s \in StatusInputs :
      /\ \A e \in PostIds :
           StoresAfter(updateLikeForPost(e, u, s))
             = StoresAfter(updateLikeForPost(e, u, Canonical(s)))
      /\ \A e \in CommentIds :
           StoresAfter(updateLikeForComment(e, u, s))
             = StoresAfter(updateLikeForComment(e, u, Canonical(s)))

\* Every item for entity e in the pages reports None exactly when absent.
ListedStatusAgrees(pages, info, e, absent) ==
  \A page \in pages :
    \A i \in 1..Len(page.items) :
      page.items[i].id = e =>
        ((page.items[i][info].myStatus = None) <=> absent)

\* The status every read reports to viewer u for entity e of type t is None
\* exactly when absent.
ReportedStatusAgrees(d, e, t, u, absent) ==
  IF t = "Post"
  THEN /\ \A v \in findPostById(d, e, u) :
            (v.extendedLikesInfo.myStatus = None) <=> absent
       /\ \A q \in Queries :
            /\ ListedStatusAgrees(getAllPostsWithPagination(d, q, u),
                                  "extendedLikesInfo", e, absent)
            /\ ListedStatusAgrees(
                 getPostsByBlogId(d, d.posts[e].blog_id, q, u),
                 "extendedLikesInfo", e, absent)
  ELSE /\ \A v \in findById(d, e, u) : (v.likesInfo.myStatus = None) <=> absent
       /\ \A q \in Queries :
            ListedStatusAgrees(
              getCommentsForPost(d, d.comments[e].post_id, q, u),
              "likesInfo", e, absent)

ReactionOf(e, t, u, s) ==
  IF t = "Post" THEN updateLikeForPost(e, u, s) ELSE updateLikeForComment(e, u, s)

Entities == { <<e, "Post">> : e \in PostIds } \cup
            { <<e, "Comment">> : e \in CommentIds }

\* C8: no likes row carries a status other than Like or Dislike; the status
\* every read reports to a viewer is None exactly when the viewer has no row
\* for the entity (findUserReaction: null exactly then); and a reaction None
\* leaves no row of the user for the entity and changes nothing when there
\* was none.
C8_NoneIsAbsence ==
  /\ \A r \in likes : r.status \in {Like, Dislike}
  /\ \A u \in Users, x \in Entities :
       /\ ReportedStatusAgrees(DB, x[1], x[2], u,
                               RowsOf(DB, u, x[1], x[2]) = {})
       /\ (findUserReaction(DB, x[1], u, x[2]) = {Null})
            <=> (RowsOf(DB, u, x[1], x[2]) = {})
       /\ Quiet =>
            \A s \in { i \in StatusInputs : Canonical(i) = None } :
              \A o \in RunToEnd(ReactionOf(x[1], x[2], u, s), DB) :
                /\ RowsOf(o.d, u, x[1], x[2]) = {}
                /\ \A r \in likes \ RowsOf(DB, u, x[1], x[2]) : r \in o.d.likes
                /\ RowsOf(DB, u, x[1], x[2]) = {} => o.d = DB

\* A request with status None has deleted the user's row on a post and is
\* about to take it off the counter, while a comment carries a reaction.
C8_Witness ==
  /\ call["r1"].pc = "decrement"
  /\ call["r1"].st = None
  /\ RowsOf(DB, call["r1"].u, call["r1"].e, "Post") = {}
  /\ \E r \in likes : r.entity_type = "Comment" /\ r.status = Dislike

DeletedPosts(d) ==
  { id \in DOMAIN d.posts : d.posts[id].deletionStatus = "deleted" }

DeletedComments(d) ==
  { id \in DOMAIN d.comments : d.comments[id].deletion_status = "deleted" }

ItemIds(page) == { page.items[i].id : i \in 1..Len(page.items) }

\* C9: a soft-deleted post or comment stays deleted, findPostById / findById
\* return null for it, it is in no page of getCommentsForPost,
\* getPostsByBlogId or getAllPostsWithPagination, and totalCount counts only
\* the entities that are not deleted.
C9_DeletedNotRead ==
  /\ [](/\ \A id \in DeletedPosts(DB), v \in Viewers :
            /\ findPostById(DB, id, v) = {Null}
            /\ \A q \in Queries :
                 /\ \A page \in getAllPostsWithPagination(DB, q, v) :
                      /\ id \notin ItemIds(page)
                      /\ page.totalCount =
                           Cardinality(DOMAIN posts \ DeletedPosts(DB))
                 /\ \A page \in getPostsByBlogId(DB, posts[id].blog_id, q, v) :
                      /\ id \notin ItemIds(page)
                      /\ page.totalCount =
                           Cardinality({ p \in DOMAIN posts \ DeletedPosts(DB) :
                                           posts[p].blog_id = posts[id].blog_id })
       /\ \A id \in DeletedComments(DB), v \in Viewers :
            /\ findById(DB, id, v) = {Null}
            /\ \A q \in Queries :
                 \A page \in getCommentsForPost(DB, comments[id].post_id, q, v) :
                   /\ id \notin ItemIds(page)
                   /\ page.totalCount =
                        Cardinality({ c \in DOMAIN comments \ DeletedComments(DB) :
                                        comments[c].post_id = comments[id].post_id }))
  /\ [][/\ DeletedPosts(DB) \subseteq { id \in DOMAIN posts' :
                                          posts'[id].deletionStatus = "deleted" }
        /\ DeletedComments(DB) \subseteq { id \in DOMAIN comments' :
                                  comments'[id].deletion_status = "deleted" }]_vars

\* A post and a comment that carry a reaction have been soft-deleted, beside
\* a post and a comment that have not.
C9_Witness ==
  /\ Quiet
  /\ DeletedPosts(DB) = {"e1"}
  /\ DeletedComments(DB) = {"e2"}
  /\ \E r \in likes : r.entity_id = "e1" /\ r.status = Like
  /\ \E r \in likes : r.entity_id = "e2"

\* C10: on a soft-deleted comment updateComment, deleteComment and
\* likeComment throw NotFound, on a soft-deleted post updatePost, deletePost
\* and updateLikeForPost report failure, and none of them changes the store.
C10_DeletedNotMutated ==
  Quiet =>
    /\ \A id \in DeletedComments(DB), u \in Users, s \in LikeStatus :
         \A o \in RunToEnd(updateComment(id, 1, u), DB)
                  \cup RunToEnd(deleteComment(id, u), DB)
                  \cup RunToEnd(likeComment(id, u, s), DB) :
           o.c.ret = "NotFoundException" /\ o.d = DB
    /\ \A id \in DeletedPosts(DB), b \in Blogs, u \in Users, s \in LikeStatus :
         \A o \in RunToEnd(updatePost(id, b, 1), DB)
                  \cup RunToEnd(deletePost(id, b), DB)
                  \cup RunToEnd(updateLikeForPost(id, u, s), DB) :
           o.c.ret \in {"false", "NotFoundException"} /\ o.d = DB

\* A comment id no comment has.
MissingId == "e9"

\* The outcomes of updateComment and of deleteComment by user u on comment id.
GuardedOutcomes(id, u) ==
  RunToEnd(updateComment(id, 1, u), DB) \cup RunToEnd(deleteComment(id, u), DB)

\* C11: updateComment and deleteComment throw NotFound whenever the comment
\* is missing or soft-deleted, whoever asks; they throw Forbidden exactly
\* when the comment is active and its author is not the requester; and a
\* failure leaves the store (content and deletion status) unchanged.
C11_GuardOrdering ==
  Quiet =>
    \A id \in DOMAIN comments \cup {MissingId}, u \in Users :
      \A o \in GuardedOutcomes(id, u) :
        /\ ~ ActiveComment(DB, id) => o.c.ret = "NotFoundException"
        /\ (o.c.ret = "NotFoundException") => ~ ActiveComment(DB, id)
        /\ (o.c.ret = "ForbiddenException")
             <=> (ActiveComment(DB, id) /\ comments[id].user_id # u)
        /\ o.c.ret \in {"NotFoundException", "ForbiddenException"} => o.d = DB

\* The author has updated the comment and then soft-deleted it: a further
\* update or delete by anyone is on a deleted comment.
C11_Witness ==
  /\ Quiet
  /\ comments["e2"].content = 1
  /\ comments["e2"].deletion_status = "deleted"
  /\ comments["e4"].deletion_status = "active"

\* The three listings, of the comments of post e1, the posts of blog b1 and
\* all posts: the possible results, the rows the filter matches and the value
\* the rows are ordered by.
ListingKinds == {"comments", "byBlog", "all"}

Listing(d, kind, query, userId) ==
  CASE kind = "comments" -> getCommentsForPost(d, "e1", query, userId)
    [] kind = "byBlog" -> getPostsByBlogId(d, "b1", query, userId)
    [] OTHER -> getAllPostsWithPagination(d, query, userId)

Matching(d, kind) ==
  CASE kind = "comments" -> CommentsOfPost(d, "e1")
    [] kind = "byBlog" -> PostsOfBlog(d, "b1")
    [] OTHER -> ActivePosts(d)

ListingKey(d, kind, query) ==
  CASE kind = "comments" ->
         CommentSortKey(d, Matching(d, kind), CommentSortColumn(query.sortBy))
    [] kind = "byBlog" ->
         PostSortKey(d, Matching(d, kind),
                     SafeSortBy(Default(query.sortBy, "createdAt"), BlogSortFields))
    [] OTHER ->
         PostSortKey(d, Matching(d, kind),
                     SafeSortBy(Default(query.sortBy, "createdAt"), AllSortFields))

\* The queries of a client that pages through a listing (pageNumber is set
\* page by page).
PagingQueries ==
  { [pageNumber |-> Sent(1), pageSize |-> Sent(n), sortBy |-> sb,
     sortDirection |-> sd] :
      n \in 1..MaxPageSize,
      sb \in {NotSent, Sent("title"), Sent("content")},
      sd \in {NotSent, Sent(<<"a", "s", "c">>)} }

PageN(query, n) == [query EXCEPT !.pageNumber = Sent(n)]

\* The ids on a page, in order, in each of its possible results.
PageIds(pages) ==
  { [i \in 1..Len(page.items) |-> page.items[i].id] : page \in pages }

\* The ids on the pages 1..count, each page from its own call; results[n] are
\* the possible results of page n.
Walks(results, count) ==
  LET ids == [n \in 1..count |-> PageIds(results[n])]
  IN { f \in [1..count -> UNION { ids[n] : n \in 1..count }] :
         \A n \in 1..count : f[n] \in ids[n] }

\* The pages of a walk hold each of the rows exactly once, and nothing else.
EachOnce(walk, rows) ==
  /\ \A n \in DOMAIN walk : Range(walk[n]) \subseteq rows
  /\ \A id \in rows :
       Cardinality({ x \in (DOMAIN walk) \X (1..Cardinality(rows)) :
                       x[2] <= Len(walk[x[1]]) /\ walk[x[1]][x[2]] = id }) = 1

DistinctKeys(key) ==
  \A a, b \in DOMAIN key : a # b => key[a] # key[b]

\* pagesCount, totalCount and the size of every page of a listing, and, when
\* sure, that the pages 1..pagesCount hold every matching row exactly once.
PaginationMath(d, kind, query, userId, sure) ==
  LET rows == Matching(d, kind)
      count == Ceil(Cardinality(rows), ValueOf(query.pageSize))
      results == [n \in 1..(count + 1) |->
                    Listing(d, kind, PageN(query, n), userId)]
  IN /\ \A n \in 1..(count + 1) :
          \A page \in results[n] :
            /\ page.totalCount = Cardinality(rows)
            /\ page.pagesCount = count
            /\ Len(page.items) <= ValueOf(query.pageSize)
     /\ sure => \A walk \in Walks(results, count) : EachOnce(walk, rows)

\* C12 as stated: with no request in flight (a stable data set), in every
\* listing pagesCount = ceil(totalCount / pageSize),
\* a page holds at most pageSize items, and the pages 1..pagesCount together
\* hold every matching active entity exactly once.
C12_PaginationMath ==
  Quiet =>
    \A kind \in ListingKinds, query \in PagingQueries, v \in {"u1", NoUser} :
      PaginationMath(DB, kind, query, v, TRUE)

\* C12, amended: the same, the pages holding every matching entity exactly
\* once when no two matching entities have the same value in the sort column.
C12_PaginationMathDistinctKeys ==
  Quiet =>
    \A kind \in ListingKinds, query \in PagingQueries, v \in {"u1", NoUser} :
      PaginationMath(DB, kind, query, v, DistinctKeys(ListingKey(DB, kind, query)))

\* Two active posts with different titles and two active comments with
\* different contents: sorted by title or content, a page size of one gives
\* two pages.
C12_Witness ==
  /\ Quiet
  /\ ActivePosts(DB) = {"e1", "e3"}
  /\ CommentsOfPost(DB, "e1") = {"e2", "e4"}
  /\ posts["e1"].title # posts["e3"].title
  /\ comments["e2"].content # comments["e4"].content

\* The page numbers and page sizes a client may send.
PageInputs == {NotSent, Sent(0 - 1), Sent(0), Sent(1), Sent(2)}

\* The parameter the listing is to use: dflt for a missing, zero or negative
\* one.
Positive(x, dflt) ==
  IF x = NotSent THEN Sent(dflt)
  ELSE IF ValueOf(x) <= 0 THEN Sent(dflt) ELSE x

PagedQuery(pageNumber, pageSize) ==
  [pageNumber |-> pageNumber, pageSize |-> pageSize, sortBy |-> NotSent,
   sortDirection |-> NotSent]

\* C13: in every listing a missing, zero or negative page number is treated
\* as 1 and a missing, zero or negative pageSize as 10: the call gives what
\* the call with the defaulted parameters gives (which does not fail).
C13_PagingDefaults ==
  Quiet =>
    \A kind \in ListingKinds, pn \in PageInputs, ps \in PageInputs :
      /\ Listing(DB, kind, PagedQuery(pn, ps), "u1")
           = Listing(DB, kind, PagedQuery(Positive(pn, 1), Positive(ps, 10)), "u1")
      /\ \A page \in Listing(DB, kind, PagedQuery(pn, ps), "u1") :
           DOMAIN page # {"error"}

\* The sortBy strings a client may send.
SortInputs ==
  {"createdAt", "title", "shortDescription", "content", "blogName",
   "dropTable", "constructor"}

\* The allow-list of each listing.
AllowList(kind) ==
  CASE kind = "comments" -> {"content", "createdAt"}
    [] kind = "byBlog" -> BlogSortFields
    [] OTHER -> AllSortFields

SortedQuery(sortBy, sortDirection) ==
  [pageNumber |-> NotSent, pageSize |-> NotSent, sortBy |-> sortBy,
   sortDirection |-> sortDirection]

\* C14: in every listing a sortBy outside the listing's allow-list gives what
\* sortBy createdAt gives, and the call does not fail.
C14_SortByAllowList ==
  Quiet =>
    \A kind \in ListingKinds, sd \in {NotSent, Sent(<<"a", "s", "c">>)} :
     \A sb \in SortInputs \ AllowList(kind) :
      /\ Listing(DB, kind, SortedQuery(Sent(sb), sd), "u1")
           = Listing(DB, kind, SortedQuery(Sent("createdAt"), sd), "u1")
      /\ \A page \in Listing(DB, kind, SortedQuery(Sent(sb), sd), "u1") :
           DOMAIN page # {"error"}

\* The sortDirection strings a client may send.
DirectionInputs ==
  { <<"a", "s", "c">>, <<"A", "S", "C">>, <<"A", "s", "c">>,
    <<"d", "e", "s", "c">>, <<"D", "E", "S", "C">>, <<"f", "o", "o">> }

lowerCase(str) == [i \in 1..Len(str) |-> toLowerCase(str[i])]

\* The direction a sortDirection stands for: asc in any letter case is
\* ascending, everything else descending.
DirectionOf(sortDirection) ==
  IF sortDirection # NotSent /\ lowerCase(ValueOf(sortDirection)) = <<"a", "s", "c">>
  THEN Sent(<<"a", "s", "c">>) ELSE Sent(<<"d", "e", "s", "c">>)

\* C15: in every listing a sortDirection gives what the direction it stands
\* for gives (asc in any letter case ascending, anything else, missing
\* included, descending), and the call does not fail.
C15_SortDirection ==
  Quiet =>
    \A kind \in ListingKinds,
       sd \in {NotSent} \cup { Sent(str) : str \in DirectionInputs } :
      /\ Listing(DB, kind, SortedQuery(Sent("content"), sd), "u1")
           = Listing(DB, kind, SortedQuery(Sent("content"), DirectionOf(sd)), "u1")
      /\ \A page \in Listing(DB, kind, SortedQuery(Sent("content"), sd), "u1") :
           DOMAIN page # {"error"}

\* Both users react to both posts of the store of CrudInit, one request at a
\* time.
BothPosts == [users |-> Users, posts |-> {"e1", "e3"}, comments |-> {}]

PageNext ==
  \E p \in {"r1"} :
    \/ UpdateLikeForPost_Select(p, BothPosts, OneAtATime)
    \/ UpdateLikeForPost_Delete(p)
    \/ UpdateLikeForPost_Decrement(p)
    \/ UpdateLikeForPost_Insert(p)
    \/ UpdateLikeForPost_Increment(p)

PageSpec == CrudInit /\ [][PageNext]_vars

\* The newestLikes findPostById can return for a post.
NewestLikesOf(d, postId, userId) ==
  { view.extendedLikesInfo.newestLikes : view \in findPostById(d, postId, userId) }

\* Every item of every page of the post listings, for the query, carries a
\* newestLikes that findPostById can return for the item's post.
NewestLikesAgree(d, query, userId) ==
  \A kind \in {"byBlog", "all"} :
    \A page \in Listing(d, kind, query, userId) :
      \A i \in 1..Len(page.items) :
        page.items[i].extendedLikesInfo.newestLikes
          \in NewestLikesOf(d, page.items[i].id, userId)

\* C16: for every post on a page of getPostsByBlogId or
\* getAllPostsWithPagination, newestLikes is the post's own up to three most
\* recent Like reactions, newest first: what findPostById returns for the
\* post, however many likes the other posts of the page have.
C16_NewestLikesPerPost ==
  Quiet =>
    \A q \in {PagedQuery(NotSent, NotSent), PagedQuery(Sent(2), Sent(1))} :
      NewestLikesAgree(DB, q, "u1")

\* A listing request that sends no query field.
NoQuery ==
  [pageNumber |-> NotSent, pageSize |-> NotSent, sortBy |-> NotSent,
   sortDirection |-> NotSent]

NoReactions == [likesCount |-> 0, dislikesCount |-> 0, myStatus |-> None]

\* The comment id is listed, with no reactions, in a page of comments.
ListedFresh(page, id) ==
  /\ "items" \in DOMAIN page
  /\ \E i \in DOMAIN page.items : /\ page.items[i].id = id
                                  /\ page.items[i].likesInfo = NoReactions

\* C17: createComment on a missing or soft-deleted post fails with NotFound
\* and leaves the comments as they were; on an active post it adds exactly one
\* comment row, active and of that post, returns it with likesCount 0,
\* dislikesCount 0 and myStatus None, and the comment is then listed by
\* getCommentsForPost for that post.
C17_CreateComment ==
  (Quiet /\ NewCommentIds \ DOMAIN comments # {}) =>
    \A postId \in DOMAIN posts \cup {MissingId}, u \in Users :
      \A o \in RunToEnd(createComment(postId, u, 1), DB) :
        IF ~ ActivePost(DB, postId)
        THEN /\ o.c.ret = "NotFoundException"
             /\ o.d.comments = comments
        ELSE LET new == DOMAIN o.d.comments \ DOMAIN comments
             IN /\ Cardinality(new) = 1
                /\ \A id \in DOMAIN comments : o.d.comments[id] = comments[id]
                /\ \A id \in new :
                     /\ o.d.comments[id].post_id = postId
                     /\ o.d.comments[id].deletion_status = "active"
                     /\ o.c.view.id = id
                     /\ o.c.view.likesInfo = NoReactions
                     /\ \A page \in CommentsForPost(o.d, postId, NoQuery, u) :
                          ListedFresh(page, id)

\* A comment was created after the clock moved, one of the posts is deleted,
\* and another comment can still be created.
C17_Witness ==
  /\ Quiet
  /\ "e5" \in DOMAIN comments
  /\ comments["e5"].created_at = 1
  /\ \E id \in DOMAIN posts : ~ ActivePost(DB, id)
  /\ \E id \in DOMAIN posts : ActivePost(DB, id)
  /\ NewCommentIds \ DOMAIN comments # {}

\* The status the likes table holds for a user on a post: None with no row.
StoredStatus(d, userId, postId) ==
  IF RowsOf(d, userId, postId, "Post") = {} THEN None
  ELSE (CHOOSE r \in RowsOf(d, userId, postId, "Post") : TRUE).status

\* 1 when the status is the one counted, else 0.
Counts(status, counted) == IF status = counted THEN 1 ELSE 0

\* The counters of post postId in store after are those in store before, less
\* one on the counter of old and plus one on the counter of new.
Adjusted(before, after, postId, old, new) ==
  /\ after.posts[postId].likesCount =
       before.posts[postId].likesCount - Counts(old, Like) + Counts(new, Like)
  /\ after.posts[postId].dislikesCount =
       before.posts[postId].dislikesCount - Counts(old, Dislike)
         + Counts(new, Dislike)

CountersOf(d, postId) ==
  <<d.posts[postId].likesCount, d.posts[postId].dislikesCount>>

\* The counters after each of Like, Dislike, None sent in turn by userId, in
\* every way the three calls can run.
Scenario(d, postId, userId) ==
  UNION { UNION { { <<CountersOf(o1.d, postId), CountersOf(o2.d, postId),
                      CountersOf(o3.d, postId)>>
                    : o3 \in RunToEnd(updateLikeForPost(postId, userId, None),
                                      o2.d) }
                  : o2 \in RunToEnd(updateLikeForPost(postId, userId, Dislike),
                                    o1.d) }
          : o1 \in RunToEnd(updateLikeForPost(postId, userId, Like), d) }

\* C18: with no other request in between, one updateLikeForPost that moves a
\* user's stored status from old to new takes one from the post counter of
\* old (unless old is None) and adds one to the counter of new (unless new is
\* None), so that the counters do not change when old = new; and Like, then
\* Dislike, then None by one user on a post at (0, 0) gives (1, 0), (0, 1)
\* and (0, 0).
C18_PerTransitionCounters ==
  Quiet =>
    \A postId \in PostIds, u \in Users :
      /\ \A status \in StatusInputs :
           \A o \in RunToEnd(updateLikeForPost(postId, u, status), DB) :
             /\ StoredStatus(o.d, u, postId) = normalizeLikeStatus(status)
             /\ Adjusted(DB, o.d, postId, StoredStatus(DB, u, postId),
                         StoredStatus(o.d, u, postId))
             /\ StoredStatus(DB, u, postId) = StoredStatus(o.d, u, postId)
                  => CountersOf(o.d, postId) = CountersOf(DB, postId)
      /\ CountersOf(DB, postId) = <<0, 0>>
           => Scenario(DB, postId, u) = { << <<1, 0>>, <<0, 1>>, <<0, 0>> >> }

\* Two requests have run: one user's Like stands, and the other's Dislike was
\* written after the clock moved; the counters are (1, 1).
C18_Witness ==
  /\ Quiet
  /\ now = 1
  /\ CountersOf(DB, "e1") = <<1, 1>>
  /\ \E r \in likes : /\ r.entity_type = "Post" /\ r.user_id = "u1"
                        /\ r.status = Dislike /\ r.created_at = 1
  /\ \E r \in likes : /\ r.entity_type = "Post" /\ r.user_id = "u2"
                        /\ r.status = Like /\ r.created_at = 0

\* One call setting status s leaves, for a user who had a row on the entity,
\* that same row with status s and no other; for a user who had none, one
\* new row; the rows of others are left alone.
KeptInPlace(d, x, u, s) ==
  \A o \in RunToEnd(ReactionOf(x[1], x[2], u, s), d) :
    /\ o.d.likes \ RowsOf(o.d, u, x[1], x[2]) = d.likes \ RowsOf(d, u, x[1], x[2])
    /\ IF RowsOf(d, u, x[1], x[2]) # {}
       THEN RowsOf(o.d, u, x[1], x[2])
              = { [r EXCEPT !.status = s] : r \in RowsOf(d, u, x[1], x[2]) }
       ELSE /\ Cardinality(RowsOf(o.d, u, x[1], x[2])) = 1
            /\ \A r \in RowsOf(o.d, u, x[1], x[2]) :
                 r.status = s /\ r.id \notin { q.id : q \in d.likes }

\* C19: when a user who already has a reaction row on a post or a comment
\* sets Like or Dislike, the row is updated in place (same id, same
\* created_at, status the one set); a row is inserted only when the user had
\* none.
C19_InPlaceUpdate ==
  Quiet =>
    \A x \in Entities, u \in Users, s \in {Like, Dislike} :
      KeptInPlace(DB, x, u, s)

\* The reactions to a comment, as the likes table holds them (the row ids the
\* store gives are left out).
ReactionsTo(rows, commentId) ==
  { [user_id |-> r.user_id, status |-> r.status, created_at |-> r.created_at]
    : r \in { q \in rows : q.entity_id = commentId
                             /\ q.entity_type = "Comment" } }

\* No step changes the content of a comment that is deleted, or the likes
\* rows for it.
Frozen ==
  \A id \in DOMAIN comments :
    comments[id].deletion_status = "deleted" =>
      /\ id \in DOMAIN comments'
      /\ comments'[id].content = comments[id].content
      /\ ReactionsTo(likes', id) = ReactionsTo(likes, id)

\* C20: with deleteComment running concurrently with updateComment or
\* likeComment on the same comment, no write is applied after the comment is
\* marked deleted: every step leaves a deleted comment's content and the
\* likes rows for it as they were.
C20_DeletedFrozen == [][Frozen]_vars

\* What a reader of post postId can get from store d: the post by id, and
\* the first page of all posts.
ReadsOf(d, postId, viewer) ==
  [byId |-> findPostById(d, postId, viewer),
   listed |-> getAllPostsWithPagination(d, NoQuery, viewer)]

\* Every result a reader can get from store mid is one it can get from the
\* store before the call or from a store after it.
BeforeOrAfter(before, mid, after, postId, viewer) ==
  /\ ReadsOf(mid, postId, viewer).byId
       \subseteq ReadsOf(before, postId, viewer).byId
                   \cup UNION { ReadsOf(d, postId, viewer).byId : d \in after }
  /\ ReadsOf(mid, postId, viewer).listed
       \subseteq ReadsOf(before, postId, viewer).listed
                   \cup UNION { ReadsOf(d, postId, viewer).listed : d \in after }

\* The counters of the post are the numbers of its Like and Dislike rows.
CountersMatchRows(d, postId) ==
  /\ d.posts[postId].likesCount = Cardinality(LikeRows(d, postId, Like))
  /\ d.posts[postId].dislikesCount = Cardinality(LikeRows(d, postId, Dislike))

\* One call of updateLikeForPost from store d, read at every point between
\* its storage calls.
AtomicToReaders(d, postId, u, status) ==
  LET c == updateLikeForPost(postId, u, status)
      after == { o.d : o \in RunToEnd(c, d) }
  IN \A mid \in Passes(c, d) :
       /\ \A viewer \in Viewers : BeforeOrAfter(d, mid, after, postId, viewer)
       /\ (StoredStatus(d, u, postId) # None /\ normalizeLikeStatus(status) # None)
            => None \notin MyPostStatus(mid, postId, u)
       /\ CountersMatchRows(d, postId) => CountersMatchRows(mid, postId)

\* C21: a findPostById or a post listing that runs while one updateLikeForPost
\* call is between two of its storage calls gets a result of the state before
\* the call or of the state after it; during a change between Like and
\* Dislike it never reports the user's status as None, and never counters
\* that differ from the numbers of Like and Dislike rows of the post.
C21_AtomicToReaders ==
  Quiet =>
    \A postId \in PostIds, u \in Users, status \in StatusInputs :
      AtomicToReaders(DB, postId, u, status)

\* The (entity, entity type) pairs reactions are set on.
Targets == { <<"e1", "Post">>, <<"e3", "Post">>, <<"e1", "Comment">> }

\* Post id in store after is as in store before, its counters aside.
SameButCounters(before, after, id) ==
  [after.posts[id] EXCEPT !.likesCount = before.posts[id].likesCount,
                          !.dislikesCount = before.posts[id].dislikesCount]
    = before.posts[id]

\* One call setting status s for user u on x = (entity, type) from store d
\* leaves every likes row other than those of (entity, type, u) as it was,
\* every other post as it was, the post itself as it was but for its counters
\* (and wholly so on the comment path), and the comments as they were.
FrameKept(d, x, u, s) ==
  \A o \in RunToEnd(ReactionOf(x[1], x[2], u, s), d) :
    /\ o.d.likes \ RowsOf(o.d, u, x[1], x[2]) = d.likes \ RowsOf(d, u, x[1], x[2])
    /\ DOMAIN o.d.posts = DOMAIN d.posts
    /\ \A id \in DOMAIN d.posts :
         IF id = x[1] /\ x[2] = "Post" THEN SameButCounters(d, o.d, id)
         ELSE o.d.posts[id] = d.posts[id]
    /\ o.d.comments = d.comments

\* C22: a reaction set by user U on entity E of type T (updateLikeForPost,
\* updateLikeForComment) changes only the likes rows of (E, T, U) and, for a
\* post, the counters of post E: the rows of other users, the rows and
\* counters of other entities, and the rows of E and U with the other entity
\* type stay as they were.
C22_ReactionFrame ==
  Quiet =>
    \A x \in Targets, u \in Users, s \in StatusInputs :
      FrameKept(DB, x, u, s)

\* One user has a Like on post e1, a Dislike on the same id through the
\* comment path and a reaction to post e3, and the other user has reacted to
\* post e1.
C22_Witness ==
  /\ Quiet
  /\ \E r \in likes : /\ r.user_id = "u1" /\ r.entity_id = "e1"
                        /\ r.entity_type = "Post" /\ r.status = Like
  /\ \E r \in likes : /\ r.user_id = "u1" /\ r.entity_id = "e1"
                        /\ r.entity_type = "Comment" /\ r.status = Dislike
  /\ \E r \in likes : /\ r.user_id = "u1" /\ r.entity_id = "e3"
                        /\ r.entity_type = "Post"
  /\ \E r \in likes : /\ r.user_id = "u2" /\ r.entity_id = "e1"
                        /\ r.entity_type = "Post"
  /\ posts["e3"].likesCount + posts["e3"].dislikesCount = 1

====
